---- MODULE Spec2Model ----
(***************************************************************************)
(* Model of the DIIP upload client:                                        *)
(*   src/data_ingestion_service/upload.py  (class DIIPUploader)            *)
(*                                                                         *)
(* One DIIPUploader instance and its caller.  Python strings are modelled  *)
(* as sequences of one-character strings, so that the sanitizer and the    *)
(* file-name extraction are computed character by character.  The value    *)
(* None is the one-element sequence <<"None">>, whose element is not a     *)
(* character, so it differs from every modelled Python string.             *)
(* Messages (exception and log texts) are sequences of tokens: literal     *)
(* text pieces and the characters of the interpolated values.              *)
(*                                                                         *)
(* The standalone script src/upload.py is modelled beside it as one run    *)
(* of the process (variable script, specification SpecScript); its         *)
(* arguments and identifiers are not inspected character by character and  *)
(* are plain strings.                                                      *)
(***************************************************************************)
EXTENDS Integers, Sequences, FiniteSets, TLC

\* ---------------------------------------------------------------- bounds
MaxCalls == 4
MaxNow == 56
MaxFiles == 2

\* ------------------------------------------------------ program constants
\* a validity window five minutes longer
CacheMinutes_hour == 55 + 5
CacheMinutes == 55
SuccessStatus == 204
MinArgv == 3
OkStatus == 200
FailedStatus == 500

\* ------------------------------------------------------------ input sets
None == <<"None">>

\* dataPackageId values the control plane may answer with ("" is a string too)
IdValues == {<<>>, <<"p">>, <<"q">>}

\* entity names handed to upload_file
EntityNames == {<<"a">>, <<"b", " ">>, <<"b", "-">>}

\* minutes that pass between two operations of the caller
TickSteps == {54, 55}

\* minutes a location request takes (the clock is read before and after it)
ApiDelays == {0, 1}

\* HTTP statuses of the control plane and of the object storage
ApiStatuses == {200, 500}
PostStatuses == {204, 200, 400}

\* ------------------------------------------------------------ Python values
Truthy(v) == v # None /\ v # <<>>

NoError == [type |-> "none", msg |-> <<>>]

StatusStr(n) ==
  CASE n = 200 -> "200"
    [] n = 204 -> "204"
    [] n = 400 -> "400"
    [] n = 500 -> "500"
    [] OTHER -> "0"

ReasonText(n) ==
  CASE n = 200 -> "OK"
    [] n = 204 -> ""
    [] n = 400 -> "Bad Request"
    [] n = 500 -> "Internal Server Error"
    [] OTHER -> ""

\* str.replace(old, new) for one-character old and new
Replace(s, old, new) == [i \in 1..Len(s) |-> IF s[i] = old THEN new ELSE s[i]]

\* a sanitizer that forgets the hyphens
clean_name_for_s3_spaces(entity_name) == Replace(entity_name, " ", "_")

\* _clean_name_for_s3: spaces, then hyphens, become underscores
clean_name_for_s3(entity_name) == Replace(Replace(entity_name, " ", "_"), "-", "_")

\* file_path.split("/")[-1]
LastSlash(p) ==
  LET S == {i \in 1..Len(p) : p[i] = "/"}
  IN IF S = {} THEN 0 ELSE CHOOSE i \in S : \A j \in S : j <= i

extract_file_name(file_path) == SubSeq(file_path, LastSlash(file_path) + 1, Len(file_path))

\* a readable stream: its bytes and the read position
Stream(data, pos) == [data |-> data, pos |-> pos]

\* io.BytesIO(streaming_body.read()); seek(0)
convert_streaming_body_to_bytesio(streaming_body) ==
  Stream(SubSeq(streaming_body.data, streaming_body.pos + 1, Len(streaming_body.data)), 0)

\* isinstance(file, cls)
IsInstance(ftype, cls) ==
  CASE cls = "str" -> ftype = "str"
    [] cls = "BinaryIO" -> ftype = "BinaryIO"
    [] cls = "StreamingBody" -> ftype = "StreamingBody"
    [] OTHER -> FALSE

\* ------------------------------------------------------------ HTTP layer
\* what requests.request / requests.post produce: a transport failure, or a
\* response with a status and, for the control plane, a JSON body
ConnFailure == [conn |-> TRUE, status |-> 0, json |-> None]
HttpResponse(status, json) == [conn |-> FALSE, status |-> status, json |-> json]

InitResponses ==
  {ConnFailure, HttpResponse(500, None)} \cup {HttpResponse(200, id) : id \in IdValues}

PlainResponses == {ConnFailure} \cup {HttpResponse(s, None) : s \in ApiStatuses}

PostResponses == {HttpResponse(s, None) : s \in PostStatuses}

\* response.raise_for_status()
RaisesForStatus(status) == status >= 400 /\ status < 600

\* a network call as seen on the wire.  kind is "init", "locate", "complete"
\* (control plane, addressed by dpid and entity) or "post" (object storage,
\* addressed by the upload location it uses)
NoLocation == [dpid |-> None, entity |-> None, issued |-> -1]

Call(kind, dpid, entity, location, file_name, body, resp) ==
  [kind |-> kind, dpid |-> dpid, entity |-> entity, location |-> location,
   file_name |-> file_name, body |-> body, conn |-> resp.conn, status |-> resp.status]

\* what the history of the session keeps of a call: who was asked for what,
\* and whether the answer was the success status of its kind
Wire(c) ==
  [kind |-> c.kind, dpid |-> c.dpid, entity |-> c.entity, location |-> c.location,
   ok |-> ~c.conn /\ c.status = (IF c.kind = "post" THEN SuccessStatus ELSE 200)]

Wires(cs) == [i \in 1..Len(cs) |-> Wire(cs[i])]

Info(msg) == [level |-> "info", msg |-> msg]
Error(msg) == [level |-> "error", msg |-> msg]

\* _api_call: the error it raises (NoError when it returns response.json())
api_call(resp) ==
  IF resp.conn THEN [type |-> "ConnectionError", msg |-> <<"connection failed">>]
  ELSE IF RaisesForStatus(resp.status)
       THEN [type |-> "HTTPError", msg |-> <<StatusStr(resp.status), " Server Error">>]
       ELSE NoError

\* ------------------------------------------------------------------ state
VARIABLES
  data_package_id,   \* self.data_package_id
  entity_url_cache,  \* self._entity_url_cache: sanitized name -> (location, expiry)
  now,               \* datetime.now(), in minutes
  calls,             \* every network call issued so far, in order
  pc,                \* the caller: "out", "body" (inside `with`), "failed" (enter raised)
  scopeStart,        \* Len(calls) when the current or last scope was entered
  last,              \* the last operation: its inputs, its calls, logs and outcome
  script             \* one run of the standalone script src/upload.py

vars == <<data_package_id, entity_url_cache, now, calls, pc, scopeStart, last, script>>

NoOp ==
  [op |-> "new", scoped |-> FALSE, name |-> None, entity |-> None, ftype |-> "none",
   file_name |-> None, lookup |-> "none", exc_in |-> NoError,
   raised |-> NoError, calls |-> <<>>, logs |-> <<>>]

\* ------------------------------------------------- the standalone script
\* presignedUrlData of a location answer: the POST address and its form fields
UrlData(dpid, entity_name) ==
  [url |-> "bucket", fields |-> [dpid |-> dpid, entity |-> entity_name]]

NoUrlData == [url |-> "", fields |-> [dpid |-> "", entity |-> ""]]

\* the JSON object of a control-plane answer
Body(id, url_data) == [dataPackageId |-> id, presignedUrlData |-> url_data]

EmptyBody == Body("", NoUrlData)

\* what requests.request / requests.post can produce: an exception (conn), or
\* a response with a status whose body is or is not parsable as JSON
ScriptResponse(conn, status, parsable, json) ==
  [conn |-> conn, status |-> status, parsable |-> parsable, json |-> json]

ScriptStatuses == {OkStatus, SuccessStatus, FailedStatus}

ScriptApiResponses(json) ==
  {ScriptResponse(TRUE, 0, FALSE, EmptyBody)}
    \cup {ScriptResponse(FALSE, s, FALSE, EmptyBody) : s \in ScriptStatuses}
    \cup {ScriptResponse(FALSE, OkStatus, TRUE, json)}

ScriptPostResponses ==
  {ScriptResponse(TRUE, 0, FALSE, EmptyBody)}
    \cup {ScriptResponse(FALSE, s, FALSE, EmptyBody) : s \in PostStatuses}

\* identifiers the control plane hands out, the program name, entity names
\* and file paths of the command line, and the paths open() can read
ScriptIds == {"p"}
Program == "upload.py"
ScriptEntities == {"e"}
FilePaths == {"f", "g", "x"}
Readable == {"f", "g"}

RECURSIVE Lists(_, _)
Lists(S, n) ==
  IF n = 0 THEN {<<>>}
  ELSE LET shorter == Lists(S, n - 1)
       IN shorter \cup {Append(l, x) : l \in {k \in shorter : Len(k) = n - 1}, x \in S}

\* sys.argv: the program name, then nothing, or an entity name and files
Argvs ==
  {<<Program>>} \cup {<<Program, e>> \o files : e \in ScriptEntities, files \in Lists(FilePaths, MaxFiles)}

\* a network call of the script as seen on the wire
ScriptCall(kind, dpid, entity_name, file, url_data, resp) ==
  [kind |-> kind, dpid |-> dpid, entity |-> entity_name, file |-> file,
   url_data |-> url_data, resp |-> resp]

\* dis_api_call without its try/except
dis_api_call_unguarded(resp) ==
  IF resp.conn THEN [raised |-> "ConnectionError", result |-> [status_code |-> 0]]
  ELSE IF resp.status = OkStatus
       THEN IF resp.parsable
            THEN [raised |-> "none",
                  result |-> [status_code |-> OkStatus, response |-> resp.json]]
            ELSE [raised |-> "JSONDecodeError", result |-> [status_code |-> 0]]
       ELSE [raised |-> "none", result |-> [status_code |-> resp.status]]

\* dis_api_call: the returned dictionary; every exception of the request or
\* of response.json() is caught and turned into status_code 500.  (Its two
\* logger calls pass the text as a format argument without a placeholder,
\* so no log line is produced by them.)
dis_api_call(resp) ==
  IF resp.conn THEN [raised |-> "none", result |-> [status_code |-> FailedStatus]]
  ELSE IF resp.status = OkStatus
       THEN IF resp.parsable
            THEN [raised |-> "none",
                  result |-> [status_code |-> OkStatus, response |-> resp.json]]
            ELSE [raised |-> "none", result |-> [status_code |-> FailedStatus]]
       ELSE [raised |-> "none", result |-> [status_code |-> resp.status]]

\* the argument check taking an entity name alone for enough
EnoughArguments_entityOnly(argv) == Len(argv) >= 2

\* the argument check of __main__: not (len(sys.argv) < 3)
EnoughArguments(argv) == ~(Len(argv) < MinArgv)

\* any 2xx result taken for a successful control-plane step
Proceeds_any2xx(result) == result.status_code >= 200 /\ result.status_code < 300

\* if result['status_code'] == 200
Proceeds(result) == result.status_code = OkStatus

\* the standalone script before it is started
NotStarted ==
  [pc |-> "idle", argv |-> <<>>, data_package_id |-> "", result |-> [status_code |-> 0],
   url_data |-> NoUrlData, next |-> 0, calls |-> <<>>, logs |-> <<>>, out |-> <<>>,
   raised |-> "none", exit |-> -1]

\* __init__
Init ==
  /\ data_package_id = None
  /\ entity_url_cache = <<>>
  /\ now = 0
  /\ calls = <<>>
  /\ pc = "out"
  /\ scopeStart = 0
  /\ last = NoOp
  /\ script = NotStarted

\* _initialize_upload: the call, the error raised and the value returned
initialize_upload(resp) ==
  LET err == api_call(resp)
  IN [calls |-> <<Call("init", None, None, NoLocation, None, <<>>, resp)>>,
      raised |-> err,
      value |-> IF err = NoError THEN resp.json ELSE None,
      logs |-> IF err = NoError
               THEN <<Info(<<"Initialized upload session with dataPackageId: ">> \o resp.json)>>
               ELSE <<>>]

\* __enter__ that swallows the error of a failed Initialize and lets the
\* body run
Enter_swallow ==
  /\ pc \in {"out", "failed"}
  /\ Len(calls) + 1 <= MaxCalls
  /\ \E resp \in InitResponses :
       LET r == initialize_upload(resp)
       IN /\ data_package_id' = IF r.raised = NoError THEN r.value ELSE data_package_id
          /\ pc' = "body"
          /\ calls' = calls \o Wires(r.calls)
          /\ scopeStart' = Len(calls)
          /\ last' = [NoOp EXCEPT !.op = "enter", !.scoped = TRUE, !.raised = NoError,
                                  !.calls = r.calls, !.logs = r.logs]
  /\ UNCHANGED <<entity_url_cache, now, script>>

\* __enter__ under `with`: the body is entered only if __enter__ returns
Enter ==
  /\ pc \in {"out", "failed"}
  /\ Len(calls) + 1 <= MaxCalls
  /\ \E resp \in InitResponses :
       LET r == initialize_upload(resp)
       IN /\ data_package_id' = IF r.raised = NoError THEN r.value ELSE data_package_id
          /\ pc' = IF r.raised = NoError THEN "body" ELSE "failed"
          /\ calls' = calls \o Wires(r.calls)
          /\ scopeStart' = Len(calls)
          /\ last' = [NoOp EXCEPT !.op = "enter", !.scoped = TRUE, !.raised = r.raised,
                                  !.calls = r.calls, !.logs = r.logs]
  /\ UNCHANGED <<entity_url_cache, now, script>>

\* _complete_upload
complete_upload(dpid, resp) ==
  LET err == api_call(resp)
  IN [calls |-> <<Call("complete", dpid, None, NoLocation, None, <<>>, resp)>>,
      raised |-> err,
      logs |-> IF err = NoError
               THEN <<Info(<<"Upload session completed for dataPackageId: ">> \o dpid)>>
               ELSE <<>>]

\* __exit__ without the `if self.data_package_id` guard
exit_outcomes_unguarded(dpid, exc_in) ==
  LET tail == (IF exc_in # NoError
               THEN <<Error(<<"An error occurred: ">> \o exc_in.msg)>> ELSE <<>>)
              \o <<Info(<<"Exiting DIIPUploader context.">>)>>
  IN {LET c == complete_upload(dpid, resp)
      IN IF c.raised # NoError
         THEN [calls |-> c.calls, raised |-> c.raised, logs |-> c.logs]
         ELSE [calls |-> c.calls, raised |-> exc_in, logs |-> c.logs \o tail]
      : resp \in PlainResponses}

\* __exit__(exc_type, exc_value, traceback): the set of its possible outcomes.
\* raised is the error the caller sees after the call: the error raised by
\* __exit__ itself, else the error in flight (the method returns None, so
\* the interpreter re-raises it).
exit_outcomes(dpid, exc_in) ==
  LET tail == (IF exc_in # NoError
               THEN <<Error(<<"An error occurred: ">> \o exc_in.msg)>> ELSE <<>>)
              \o <<Info(<<"Exiting DIIPUploader context.">>)>>
  IN IF Truthy(dpid)
     THEN {LET c == complete_upload(dpid, resp)
           IN IF c.raised # NoError
              THEN [calls |-> c.calls, raised |-> c.raised, logs |-> c.logs]
              ELSE [calls |-> c.calls, raised |-> exc_in, logs |-> c.logs \o tail]
           : resp \in PlainResponses}
     ELSE {[calls |-> <<>>, raised |-> exc_in, logs |-> tail]}

\* errors that can leave the `with` body: none, an error of the caller's own
\* code, or the error of the upload_file call that just raised
CallerError == [type |-> "CallerError", msg |-> <<"boom">>]

BodyErrors ==
  {NoError, CallerError} \cup (IF last.op = "upload" THEN {last.raised} ELSE {})

\* __exit__ that forgets the session identifier once it has completed
Exit_reset ==
  /\ pc = "body"
  /\ Len(calls) + 1 <= MaxCalls
  /\ \E exc_in \in BodyErrors :
     \E r \in exit_outcomes(data_package_id, exc_in) :
       /\ calls' = calls \o Wires(r.calls)
       /\ last' = [NoOp EXCEPT !.op = "exit", !.scoped = TRUE, !.exc_in = exc_in,
                               !.raised = r.raised, !.calls = r.calls, !.logs = r.logs]
  /\ pc' = "out"
  /\ data_package_id' = None
  /\ UNCHANGED <<entity_url_cache, now, scopeStart, script>>

\* leaving the `with` block: __exit__ runs exactly when __enter__ returned
Exit ==
  /\ pc = "body"
  /\ Len(calls) + 1 <= MaxCalls
  /\ \E exc_in \in BodyErrors :
     \E r \in exit_outcomes(data_package_id, exc_in) :
       /\ calls' = calls \o Wires(r.calls)
       /\ last' = [NoOp EXCEPT !.op = "exit", !.scoped = TRUE, !.exc_in = exc_in,
                               !.raised = r.raised, !.calls = r.calls, !.logs = r.logs]
  /\ pc' = "out"
  /\ UNCHANGED <<data_package_id, entity_url_cache, now, scopeStart, script>>

\* the release step run by a caller after a failed acquire (try/finally
\* around explicit __enter__/__exit__ calls)
ReleaseUnacquired ==
  /\ pc = "failed"
  /\ Len(calls) + 1 <= MaxCalls
  /\ \E exc_in \in {NoError, last.raised} :
     \E r \in exit_outcomes(data_package_id, exc_in) :
       /\ calls' = calls \o Wires(r.calls)
       /\ last' = [NoOp EXCEPT !.op = "exit", !.scoped = FALSE, !.exc_in = exc_in,
                               !.raised = r.raised, !.calls = r.calls, !.logs = r.logs]
  /\ pc' = "out"
  /\ UNCHANGED <<data_package_id, entity_url_cache, now, scopeStart, script>>

\* runtime types of the `file` argument of upload_file:
\*   "str"           a path
\*   "BytesIO"       io.BytesIO / an open binary file (not a typing.BinaryIO)
\*   "BinaryIO"      an instance of a class deriving from typing.BinaryIO
\*   "StreamingBody" botocore.response.StreamingBody
\*   "int"           anything else
FileData == <<1, 2>>
NoStream == Stream(<<>>, 0)

PathArg(p, readable) == [type |-> "str", path |-> p, readable |-> readable, stream |-> NoStream]
StreamArg(t, pos) == [type |-> t, path |-> None, readable |-> TRUE, stream |-> Stream(FileData, pos)]
OtherArg == [type |-> "int", path |-> None, readable |-> TRUE, stream |-> NoStream]

\* the (file, file_name) argument pairs handed to upload_file
Arg(file, file_name) == [file |-> file, file_name |-> file_name]

UploadArgs ==
  {Arg(PathArg(<<"f">>, TRUE), None), Arg(PathArg(<<"d", "/", "g">>, TRUE), <<>>),
   Arg(PathArg(<<"d", "/", "g">>, TRUE), <<"n">>), Arg(PathArg(<<"x">>, FALSE), None),
   Arg(StreamArg("BytesIO", 0), <<"n">>), Arg(StreamArg("BytesIO", 0), None),
   Arg(StreamArg("BinaryIO", 1), <<"n">>), Arg(StreamArg("BinaryIO", 0), None),
   Arg(StreamArg("StreamingBody", 1), <<"n">>), Arg(StreamArg("StreamingBody", 0), <<>>),
   Arg(OtherArg, <<"n">>), Arg(OtherArg, None)}

\* the server's answer to a location request: presignedUrlData, identified
\* by the request it answers
Location(dpid, entity_name, t) == [dpid |-> dpid, entity |-> entity_name, issued |-> t]

CacheState(cache, entity_name, t) ==
  IF entity_name \notin DOMAIN cache THEN "absent"
  ELSE IF t < cache[entity_name].expiry THEN "hit" ELSE "expired"

\* whether the entry cached for entity_name may still be used at time t
IsFresh_inclusive(cache, entity_name, t) ==
  entity_name \in DOMAIN cache /\ t <= cache[entity_name].expiry

IsFresh(cache, entity_name, t) ==
  entity_name \in DOMAIN cache /\ t < cache[entity_name].expiry

\* _get_diip_upload_entity_url at time t: the set of its possible outcomes
get_diip_upload_entity_url(cache, dpid, entity_name, t) ==
  IF IsFresh(cache, entity_name, t)
  THEN {[raised |-> NoError, url |-> cache[entity_name].url, cache |-> cache,
         calls |-> <<>>, now |-> t,
         logs |-> <<Info(<<"Reusing cached DIIP uploading URL for entity: ">> \o entity_name)>>]}
  ELSE {LET err == api_call(resp)
            entity_url == Location(dpid, entity_name, t)
        IN IF err # NoError
           THEN [raised |-> err, url |-> NoLocation, cache |-> cache,
                 calls |-> <<Call("locate", dpid, entity_name, NoLocation, None, <<>>, resp)>>,
                 now |-> t + d, logs |-> <<>>]
           ELSE [raised |-> NoError, url |-> entity_url,
                 cache |-> [k \in DOMAIN cache \cup {entity_name} |->
                             IF k = entity_name
                             THEN [url |-> entity_url, expiry |-> (t + d) + CacheMinutes]
                             ELSE cache[k]],
                 calls |-> <<Call("locate", dpid, entity_name, entity_url, None, <<>>, resp)>>,
                 now |-> t + d,
                 logs |-> <<Info(<<"Generated and cached entity URL for entity: ">> \o entity_name)>>]
        : resp \in PlainResponses, d \in ApiDelays}

\* any 2xx status taken for a successful transfer
IsUploaded_any2xx(status) == status >= 200 /\ status < 300

\* the status that means the transfer succeeded
IsUploaded(status) == status = SuccessStatus

\* a failed transfer logged without its status and response text
upload_to_s3_terse(file_obj, entity_url, file_name) ==
  {LET call == Call("post", entity_url.dpid, entity_url.entity, entity_url, file_name,
                    SubSeq(file_obj.data, file_obj.pos + 1, Len(file_obj.data)), resp)
   IN IF resp.conn
      THEN [raised |-> [type |-> "ConnectionError", msg |-> <<"connection failed">>],
            calls |-> <<call>>, logs |-> <<>>]
      ELSE IF IsUploaded(resp.status)
      THEN [raised |-> NoError, calls |-> <<call>>,
            logs |-> <<Info(<<"File ">> \o file_name \o <<" uploaded successfully.">>)>>]
      ELSE [raised |-> [type |-> "Exception", msg |-> <<"Failed to upload file ">> \o file_name],
            calls |-> <<call>>,
            logs |-> <<Error(<<"Failed to upload file ">> \o file_name)>>]
   : resp \in PostResponses}

\* _upload_to_s3: the set of its possible outcomes
upload_to_s3(file_obj, entity_url, file_name) ==
  {LET call == Call("post", entity_url.dpid, entity_url.entity, entity_url, file_name,
                    SubSeq(file_obj.data, file_obj.pos + 1, Len(file_obj.data)), resp)
   IN IF resp.conn
      THEN [raised |-> [type |-> "ConnectionError", msg |-> <<"connection failed">>],
            calls |-> <<call>>, logs |-> <<>>]
      ELSE IF IsUploaded(resp.status)
      THEN [raised |-> NoError, calls |-> <<call>>,
            logs |-> <<Info(<<"File ">> \o file_name \o <<" uploaded successfully.">>)>>]
      ELSE [raised |-> [type |-> "Exception", msg |-> <<"Failed to upload file ">> \o file_name],
            calls |-> <<call>>,
            logs |-> <<Error(<<"Failed to upload file ">> \o file_name
                             \o <<". Status: ", StatusStr(resp.status),
                                  ", Reason: ", ReasonText(resp.status)>>)>>]
   : resp \in PostResponses}

Raise(type, msg) == {[raised |-> [type |-> type, msg |-> msg], calls |-> <<>>, logs |-> <<>>]}

\* the part of upload_file after the location lookup (lines 76-87): the
\* resolved file name and the set of possible outcomes
dispatch(file, file_name_arg, entity_url) ==
  IF IsInstance(file.type, "str")
  THEN LET file_name == IF Truthy(file_name_arg) THEN file_name_arg
                        ELSE extract_file_name(file.path)
       IN [file_name |-> file_name,
           outcomes |-> IF file.readable /\ file_name # <<>>
                        THEN upload_to_s3(Stream(FileData, 0), entity_url, file_name)
                        ELSE Raise("FileNotFoundError", <<"No such file or directory: ">> \o file.path)]
  ELSE IF IsInstance(file.type, "BinaryIO") \/ IsInstance(file.type, "StreamingBody")
  THEN [file_name |-> file_name_arg,
        outcomes |->
          IF ~Truthy(file_name_arg)
          THEN Raise("ValueError",
                     <<"file_name must be provided when uploading a BinaryIO or StreamingBody object.">>)
          ELSE upload_to_s3(IF IsInstance(file.type, "StreamingBody")
                            THEN convert_streaming_body_to_bytesio(file.stream)
                            ELSE file.stream,
                            entity_url, file_name_arg)]
  ELSE [file_name |-> file_name_arg,
        outcomes |->
          Raise("TypeError",
                <<"file must be a file path (str), a BinaryIO object, or a StreamingBody object.">>)]

\* the argument pairs used while the session life cycle is explored: a
\* readable path and an unsupported value
CoreArgs == {Arg(PathArg(<<"f">>, TRUE), None), Arg(OtherArg, None)}

\* upload_file dropping the cached location after a failed transfer
upload_file_evict(args) ==
  /\ Len(calls) + 2 <= MaxCalls
  /\ \E entity_name \in EntityNames, arg \in args :
       LET file == arg.file
           file_name_arg == arg.file_name
           key == clean_name_for_s3(entity_name)
           state == CacheState(entity_url_cache, key, now)
       IN \E lk \in get_diip_upload_entity_url(entity_url_cache, data_package_id, key, now) :
            /\ lk.now <= MaxNow
            /\ now' = lk.now
            /\ IF lk.raised # NoError
               THEN /\ entity_url_cache' = lk.cache
                    /\ calls' = calls \o Wires(lk.calls)
                    /\ last' = [NoOp EXCEPT !.op = "upload", !.scoped = (pc = "body"),
                                 !.name = entity_name, !.entity = key, !.ftype = file.type,
                                 !.file_name = file_name_arg, !.lookup = state,
                                 !.raised = lk.raised, !.calls = lk.calls, !.logs = lk.logs]
               ELSE LET dp == dispatch(file, file_name_arg, lk.url)
                    IN \E r \in dp.outcomes :
                         /\ entity_url_cache' =
                              IF r.raised # NoError /\ r.calls # <<>>
                              THEN [k \in DOMAIN lk.cache \ {key} |-> lk.cache[k]]
                              ELSE lk.cache
                         /\ calls' = calls \o Wires(lk.calls \o r.calls)
                         /\ last' = [NoOp EXCEPT !.op = "upload", !.scoped = (pc = "body"),
                                      !.name = entity_name, !.entity = key, !.ftype = file.type,
                                      !.file_name = dp.file_name, !.lookup = state,
                                      !.raised = r.raised, !.calls = lk.calls \o r.calls,
                                      !.logs = lk.logs \o r.logs]
  /\ UNCHANGED <<data_package_id, pc, scopeStart, script>>

\* upload_file(entity_name, file, file_name) with arguments drawn from args
upload_file(args) ==
  /\ Len(calls) + 2 <= MaxCalls
  /\ \E entity_name \in EntityNames, arg \in args :
       LET file == arg.file
           file_name_arg == arg.file_name
           key == clean_name_for_s3(entity_name)
           state == CacheState(entity_url_cache, key, now)
       IN \E lk \in get_diip_upload_entity_url(entity_url_cache, data_package_id, key, now) :
            /\ lk.now <= MaxNow
            /\ entity_url_cache' = lk.cache
            /\ now' = lk.now
            /\ IF lk.raised # NoError
               THEN /\ calls' = calls \o Wires(lk.calls)
                    /\ last' = [NoOp EXCEPT !.op = "upload", !.scoped = (pc = "body"),
                                 !.name = entity_name, !.entity = key, !.ftype = file.type,
                                 !.file_name = file_name_arg, !.lookup = state,
                                 !.raised = lk.raised, !.calls = lk.calls, !.logs = lk.logs]
               ELSE LET dp == dispatch(file, file_name_arg, lk.url)
                    IN \E r \in dp.outcomes :
                         /\ calls' = calls \o Wires(lk.calls \o r.calls)
                         /\ last' = [NoOp EXCEPT !.op = "upload", !.scoped = (pc = "body"),
                                      !.name = entity_name, !.entity = key, !.ftype = file.type,
                                      !.file_name = dp.file_name, !.lookup = state,
                                      !.raised = r.raised, !.calls = lk.calls \o r.calls,
                                      !.logs = lk.logs \o r.logs]
  /\ UNCHANGED <<data_package_id, pc, scopeStart, script>>

\* time passes between two operations
Tick ==
  /\ \E d \in TickSteps : now + d <= MaxNow /\ now' = now + d
  /\ UNCHANGED <<data_package_id, entity_url_cache, calls, pc, scopeStart, last, script>>

\* upload_file called by the caller, inside or outside a scope
UploadFile == upload_file(CoreArgs)

\* upload_file called inside the scope with every kind of argument
UploadAny == pc = "body" /\ upload_file(UploadArgs)

\* the life cycle of one instance: scopes entered and left any number of
\* times, uploads inside and outside them
Next == Enter \/ UploadFile \/ Exit \/ ReleaseUnacquired \/ Tick

Spec == Init /\ [][Next]_vars

\* one scope held open, uploads of every kind of argument
NextUpload == Enter \/ UploadAny \/ Tick

SpecUpload == Init /\ [][NextUpload]_vars

\* ------------------------------------------ actions of the standalone script
libvars == <<data_package_id, entity_url_cache, now, calls, pc, scopeStart, last>>

\* the process ends: normally (status 0), by sys.exit(1), or by an uncaught
\* exception (traceback, status 1)
Ended(s, raised, status) == [s EXCEPT !.pc = "done", !.raised = raised, !.exit = status]

UsageLine(argv) == <<"Usage: python ", argv[1], " <entity_name> <file1> <file2> ...">>

\* the run is started with a command line; __main__ checks the arguments
ScriptStart ==
  /\ script.pc = "idle"
  /\ \E argv \in Argvs :
       LET s == [script EXCEPT !.argv = argv]
       IN script' = IF EnoughArguments(argv)
                    THEN [s EXCEPT !.pc = "init"]
                    ELSE Ended([s EXCEPT !.out = <<UsageLine(argv)>>], "SystemExit", 1)
  /\ UNCHANGED libvars

\* result = upload_init() and the test of its status
ScriptInit ==
  /\ script.pc = "init"
  /\ \E resp \in UNION {ScriptApiResponses(Body(id, NoUrlData)) : id \in ScriptIds} :
       LET r == dis_api_call(resp)
           s == [script EXCEPT !.calls = Append(@, ScriptCall("init", "", "", "", NoUrlData, resp))]
       IN script' =
            IF r.raised # "none" THEN Ended(s, r.raised, 1)
            ELSE LET t == [s EXCEPT !.result = r.result]
                 IN IF ~Proceeds(r.result) THEN Ended(t, "none", 0)
                    ELSE IF "response" \notin DOMAIN r.result THEN Ended(t, "KeyError", 1)
                    ELSE [t EXCEPT !.pc = "locate",
                                   !.data_package_id = r.result.response.dataPackageId,
                                   !.logs = Append(@, Info(<<"Generating upload url for ", s.argv[2],
                                                             " and id ", r.result.response.dataPackageId>>))]
  /\ UNCHANGED libvars

\* result = generate_upload_url(data_package_id, entity_name) and the test of
\* its status; the file list is sys.argv[2:]
ScriptLocate ==
  /\ script.pc = "locate"
  /\ LET dpid == script.data_package_id
         entity_name == script.argv[2]
     IN \E resp \in ScriptApiResponses(Body("", UrlData(dpid, entity_name))) :
          LET r == dis_api_call(resp)
              s == [script EXCEPT !.calls = Append(@, ScriptCall("locate", dpid, entity_name, "", NoUrlData, resp))]
          IN script' =
               IF r.raised # "none" THEN Ended(s, r.raised, 1)
               ELSE LET t == [s EXCEPT !.result = r.result]
                    IN IF ~Proceeds(r.result) THEN Ended(t, "none", 0)
                       ELSE IF "response" \notin DOMAIN r.result THEN Ended(t, "KeyError", 1)
                       ELSE [t EXCEPT !.pc = IF Len(s.argv) >= 3 THEN "files" ELSE "complete",
                                      !.url_data = r.result.response.presignedUrlData,
                                      !.next = 3,
                                      !.logs = Append(@, Info(<<"Uploading files ">> \o SubSeq(s.argv, 3, Len(s.argv))))]
  /\ UNCHANGED libvars

\* one iteration of the loop of upload_files_to_s3: open the file, POST it,
\* log the outcome.  Neither open() nor requests.post is guarded, so an
\* exception of either ends the process.
ScriptUploadOne ==
  /\ script.pc = "files"
  /\ LET file == script.argv[script.next]
     IN IF file \notin Readable
        THEN script' = Ended(script, "FileNotFoundError", 1)
        ELSE \E resp \in ScriptPostResponses :
               LET s == [script EXCEPT !.calls = Append(@, ScriptCall("post", script.url_data.fields.dpid,
                                                                      script.url_data.fields.entity, file,
                                                                      script.url_data, resp))]
               IN script' =
                    IF resp.conn THEN Ended(s, "ConnectionError", 1)
                    ELSE [s EXCEPT !.next = @ + 1,
                                   !.pc = IF script.next + 1 > Len(script.argv) THEN "complete" ELSE "files",
                                   !.logs = Append(@,
                                      IF resp.status = SuccessStatus
                                      THEN Info(<<"File ", file, " uploaded successfully.">>)
                                      ELSE Error(<<"Failed to upload file ", file, ". Status code: ",
                                                   StatusStr(resp.status), ", Reason: ",
                                                   ReasonText(resp.status)>>))]
  /\ UNCHANGED libvars

\* result = complete_upload(data_package_id); the script ends
ScriptComplete ==
  /\ script.pc = "complete"
  /\ \E resp \in ScriptApiResponses(EmptyBody) :
       LET r == dis_api_call(resp)
           s == [script EXCEPT !.calls = Append(@, ScriptCall("complete", script.data_package_id, "", "", NoUrlData, resp)),
                               !.logs = Append(@, Info(<<"Completing upload for ", script.data_package_id>>))]
       IN script' = IF r.raised # "none" THEN Ended(s, r.raised, 1)
                    ELSE Ended([s EXCEPT !.result = r.result], "none", 0)
  /\ UNCHANGED libvars

NextScript == ScriptStart \/ ScriptInit \/ ScriptLocate \/ ScriptUploadOne \/ ScriptComplete

SpecScript == Init /\ [][NextScript]_vars

\* ------------------------------------------------------------ observations
Indices(kinds) == {i \in 1..Len(calls) : calls[i].kind \in kinds}

ControlPlane == {"init", "locate", "complete"}

\* the calls of the scope entered last: everything after scopeStart
InScope(i) == i > scopeStart /\ i <= Len(calls)

\* an Initialize of this instance has succeeded
Initialized == \E i \in Indices({"init"}) : calls[i].ok

\* msg contains the string name
Contains(msg, name) ==
  \E k \in 0..(Len(msg) - Len(name)) : SubSeq(msg, k + 1, k + Len(name)) = name

LastPosts == {i \in 1..Len(last.calls) : last.calls[i].kind = "post"}

ScopedExit == last.op = "exit" /\ last.scoped

\* ------------------------------------------------------------------ C1
\* C1: whenever a `with` scope whose Initialize succeeded has been left,
\* exactly one Complete call for its data_package_id was issued since the
\* scope was entered, and it was issued by the release step itself (so
\* before a body error leaves the scope).
C1_CompleteExactlyOnce ==
  ScopedExit =>
    /\ Cardinality({i \in Indices({"complete"}) :
                      InScope(i) /\ calls[i].dpid = data_package_id}) = 1
    /\ Len(last.calls) = 1
    /\ last.calls[1].kind = "complete"
    /\ last.calls[1].dpid = data_package_id

\* ------------------------------------------------------------------ C2
\* C2: when the body of a scope raised E, the release step attempted the
\* Complete call, logged E, and E is the error the caller sees, whatever the
\* Complete call answered.  Stated for the scopes whose Initialize returned
\* a non-empty identifier; for the empty identifier the Complete call is not
\* even attempted (see C1).
C2_BodyErrorLoggedAndPropagated ==
  (ScopedExit /\ last.exc_in # NoError /\ Truthy(data_package_id)) =>
    /\ \E i \in 1..Len(last.calls) : last.calls[i].kind = "complete"
    /\ \E i \in 1..Len(last.logs) :
         last.logs[i] = Error(<<"An error occurred: ">> \o last.exc_in.msg)
    /\ last.raised = last.exc_in

\* ------------------------------------------------------------------ C3
\* C3 as claimed: every location request and every transfer comes after a
\* successful Initialize and before any Complete.
C3_Original ==
  \A i \in Indices({"locate", "post"}) :
    /\ \E j \in 1..(i - 1) : calls[j].kind = "init" /\ calls[j].ok
    /\ \A j \in 1..(i - 1) : calls[j].kind # "complete"

\* C3 amended: while a `with` scope is held, and when it has just been left,
\* the calls of that scope are its successful Initialize, then only location
\* requests and transfers, then (on leaving) at most the Complete call as the
\* very last one; and every transfer uses a location that an earlier,
\* successful location request of the instance obtained.
ScopeShape(lastBody) ==
  /\ scopeStart < Len(calls)
  /\ calls[scopeStart + 1].kind = "init"
  /\ calls[scopeStart + 1].ok
  /\ \A i \in (scopeStart + 2)..lastBody : calls[i].kind \in {"locate", "post"}

C3_ScopedOrder ==
  /\ pc = "body" => ScopeShape(Len(calls))
  /\ ScopedExit =>
       IF last.calls = <<>> THEN ScopeShape(Len(calls))
       ELSE ScopeShape(Len(calls) - 1) /\ calls[Len(calls)].kind = "complete"
  /\ \A i \in Indices({"post"}) :
       \E j \in 1..(i - 1) :
         calls[j].kind = "locate" /\ calls[j].ok /\ calls[j].location = calls[i].location

\* a scope that was entered, uploaded a file and was completed
C3_Witness ==
  /\ ScopedExit
  /\ last.calls # <<>>
  /\ \E i \in Indices({"post"}) : InScope(i)
  /\ \E i \in Indices({"locate"}) : InScope(i)

\* ------------------------------------------------------------------ C4
\* C4 as claimed: data_package_id is None until the first successful
\* Initialize and, once assigned, never changes.
C4_Original ==
  /\ [](~Initialized => data_package_id = None)
  /\ [][data_package_id # None => data_package_id' = data_package_id]_vars

\* C4 amended: data_package_id is None until the first successful
\* Initialize and changes only in a step that is a successful __enter__
\* (once per scope entry); upload_file, __exit__ and a failed Initialize
\* leave it as it is.
C4_AssignedOnlyByEnter ==
  /\ [](~Initialized => data_package_id = None)
  /\ [][data_package_id' # data_package_id =>
          (last'.op = "enter" /\ last'.raised = NoError /\ Len(calls') = Len(calls) + 1
           /\ calls'[Len(calls')].kind = "init" /\ calls'[Len(calls')].ok)]_vars

\* a second scope has been entered and its Initialize returned another id
\* than the one completed before
C4_Witness ==
  /\ last.op = "enter"
  /\ last.raised = NoError
  /\ \E j \in Indices({"complete"}) : calls[j].dpid # data_package_id

\* ------------------------------------------------------------------ C5
\* C5 as claimed: after a failed Initialize data_package_id is None, and the
\* release step that follows a failed Initialize issues no call.
C5_Original ==
  /\ (last.op = "enter" /\ last.raised # NoError) => data_package_id = None
  /\ (last.op = "exit" /\ ~last.scoped) => last.calls = <<>>

\* C5 amended: as long as no Initialize of the instance has succeeded,
\* data_package_id is None, the body of a scope is never running, and a
\* release step issues no call at all.
C5_FailedInitOnFreshInstance ==
  ~Initialized =>
    /\ data_package_id = None
    /\ pc # "body"
    /\ last.op = "exit" => last.calls = <<>>
    /\ Indices({"complete"}) = {}

\* the release step has run after the Initialize of a fresh instance failed
C5_Witness ==
  /\ ~Initialized
  /\ last.op = "exit"
  /\ \E i \in Indices({"init"}) : ~calls[i].ok

\* ------------------------------------------------------------------ C6
\* C6: an upload_file call that raised a usage error (ValueError for a
\* missing file name, TypeError for an unsupported input) issued no network
\* call, whatever the state of the cache.
C6_UsageErrorBeforeNetwork ==
  (last.op = "upload" /\ last.raised.type \in {"ValueError", "TypeError"}) =>
    last.calls = <<>>

\* ------------------------------------------------------------------ C7
\* C7: in every upload_file step, if the cache holds an entry for the
\* sanitized name whose expiry is after the current time, the step issues no
\* control-plane call and its first call, if any, is the storage POST;
\* otherwise it issues exactly one control-plane call, a location request
\* for that name, as its first call.
UploadStep ==
  /\ last'.op = "upload"
  /\ (calls' # calls \/ now' = now)
  /\ Len(calls') = Len(calls) + Len(last'.calls)

C7_HitNoCallMissOneCall ==
  [][UploadStep =>
       LET key == last'.entity
           issued == last'.calls
           control == {i \in 1..Len(issued) : issued[i].kind \in ControlPlane}
       IN IF key \in DOMAIN entity_url_cache /\ entity_url_cache[key].expiry > now
          THEN control = {} /\ (issued # <<>> => issued[1].kind = "post")
          ELSE /\ control = {1}
               /\ issued[1].kind = "locate"
               /\ issued[1].entity = key]_vars

\* an upload served from the cache 54 minutes or more after the fetch
C7_Witness ==
  /\ last.op = "upload"
  /\ last.lookup = "hit"
  /\ now >= 54
  /\ Len(last.calls) = 1
  /\ last.calls[1].kind = "post"
  /\ last.calls[1].location.issued = 0

\* ------------------------------------------------------------------ C8
\* C8: when the first scope of a fresh instance has been left without an
\* error, all within the first 55 minutes, every call having succeeded and
\* every located entity having received a file, the calls are: Initialize
\* first, Complete last, one location request per entity that precedes the
\* entity's first POST, and k + 2 control-plane calls for k entities.
PostedEntities == {calls[i].entity : i \in Indices({"post"})}

C8_CallSequence ==
  (/\ ScopedExit
   /\ scopeStart = 0
   /\ last.exc_in = NoError
   /\ last.raised = NoError
   /\ now < CacheMinutes
   /\ \A i \in 1..Len(calls) : calls[i].ok
   /\ Indices({"post"}) # {}
   /\ \A i \in Indices({"locate"}) : calls[i].entity \in PostedEntities)
  =>
    /\ calls[1].kind = "init"
    /\ calls[Len(calls)].kind = "complete"
    /\ Cardinality(Indices({"init"})) = 1
    /\ Cardinality(Indices({"complete"})) = 1
    /\ \A e \in PostedEntities :
         /\ Cardinality({i \in Indices({"locate"}) : calls[i].entity = e}) = 1
         /\ \A i \in Indices({"post"}) :
              calls[i].entity = e =>
                \E j \in 1..(i - 1) : calls[j].kind = "locate" /\ calls[j].entity = e
    /\ Cardinality(Indices(ControlPlane)) = Cardinality(PostedEntities) + 2

\* ------------------------------------------------------------------ C9
\* C9: an upload_file call in an open scope whose location lookup succeeded,
\* whose file could be read and whose POST, if any, was answered 204: for a
\* path, or a stream (in-memory or StreamingBody) with a file name, it
\* issued exactly one POST carrying the resolved file name and raised
\* nothing; for any other input it raised a usage error and issued no POST.
Supported(ftype, file_name) ==
  \/ ftype = "str"
  \/ ftype \in {"BytesIO", "BinaryIO", "StreamingBody"} /\ Truthy(file_name)

C9_Dispatch ==
  (/\ last.op = "upload"
   /\ last.scoped
   /\ last.raised.type \notin {"HTTPError", "ConnectionError", "FileNotFoundError"}
   /\ \A i \in LastPosts : last.calls[i].status = SuccessStatus)
  =>
    IF Supported(last.ftype, last.file_name)
    THEN /\ Cardinality(LastPosts) = 1
         /\ \A i \in LastPosts : last.calls[i].file_name = last.file_name
         /\ last.raised = NoError
    ELSE /\ LastPosts = {}
         /\ last.raised.type \in {"ValueError", "TypeError"}

\* ------------------------------------------------------------------ C10
\* C10: an upload_file call that reached the storage POST returned normally
\* exactly when the response status was 204, and otherwise raised an error
\* whose message contains the destination file name.
C10_SuccessIff204 ==
  last.op = "upload" =>
    \A i \in LastPosts :
      /\ (last.calls[i].status = 204) <=> (last.raised = NoError)
      /\ last.calls[i].status # 204 =>
           /\ last.raised # NoError
           /\ last.calls[i].file_name # <<>>
           /\ Contains(last.raised.msg, last.calls[i].file_name)

\* a transfer answered with a 2xx status other than 204 has raised
C10_Witness ==
  /\ last.op = "upload"
  /\ \E i \in LastPosts : last.calls[i].status = 200
  /\ last.raised.type = "Exception"

\* ------------------------------------------------------------------ C11
\* the claim as written: the message of the error raised by a failed transfer
\* contains the file name, the status code and the response text
C11_Original ==
  last.op = "upload" =>
    \A i \in LastPosts :
      last.calls[i].status # 204 =>
        /\ Contains(last.raised.msg, last.calls[i].file_name)
        /\ Contains(last.raised.msg, <<StatusStr(last.calls[i].status)>>)
        /\ Contains(last.raised.msg, <<ReasonText(last.calls[i].status)>>)

\* C11: after a failed transfer (status other than 204) the raised error's
\* message is "Failed to upload file <file name>" and nothing more; the status
\* code and the response text are in the one error-level log line written
\* before raising, together with the file name.
C11_StatusAndTextInLogLine ==
  last.op = "upload" =>
    \A i \in LastPosts :
      last.calls[i].status # 204 =>
        /\ last.raised.type = "Exception"
        /\ last.raised.msg = <<"Failed to upload file ">> \o last.calls[i].file_name
        /\ \E k \in 1..Len(last.logs) :
             /\ last.logs[k].level = "error"
             /\ Contains(last.logs[k].msg, last.calls[i].file_name)
             /\ Contains(last.logs[k].msg, <<StatusStr(last.calls[i].status)>>)
             /\ Contains(last.logs[k].msg, <<ReasonText(last.calls[i].status)>>)

\* a transfer answered 400 has raised and logged "Bad Request"
C11_Witness ==
  /\ last.op = "upload"
  /\ \E i \in LastPosts : last.calls[i].status = 400
  /\ last.raised.type = "Exception"
  /\ \E k \in 1..Len(last.logs) : Contains(last.logs[k].msg, <<"Bad Request">>)

\* ------------------------------------------------------------------ C16
\* C16: every cache entry expires 55 minutes after the fetch that created it
\* (the request was issued at the time its location records, the answer was
\* stored on arrival); an upload_file step whose entry is present and not yet
\* expired (now strictly before the expiry) leaves the cache as it is and
\* posts to the cached location; a step at or after the expiry, or with no
\* entry, requests the location, and when the request succeeds the entry is a
\* new pair of that location and the time of arrival plus 55 minutes, every
\* other entry being untouched; when the request fails the cache is as before.
C16_ExpiryAndReplacement ==
  /\ [](\A k \in DOMAIN entity_url_cache :
          entity_url_cache[k].expiry - 55 - entity_url_cache[k].url.issued \in ApiDelays)
  /\ [][UploadStep =>
          LET key == last'.entity
              issued == last'.calls
          IN IF key \in DOMAIN entity_url_cache /\ now < entity_url_cache[key].expiry
             THEN /\ entity_url_cache' = entity_url_cache
                  /\ \A i \in 1..Len(issued) :
                       /\ issued[i].kind = "post"
                       /\ issued[i].location = entity_url_cache[key].url
             ELSE /\ issued # <<>>
                  /\ issued[1].kind = "locate"
                  /\ IF ~issued[1].conn /\ issued[1].status = 200
                     THEN /\ DOMAIN entity_url_cache' = DOMAIN entity_url_cache \cup {key}
                          /\ entity_url_cache'[key].expiry = now' + 55
                          /\ entity_url_cache'[key].url = issued[1].location
                          /\ entity_url_cache'[key].url.issued = now
                          /\ key \in DOMAIN entity_url_cache =>
                               /\ entity_url_cache'[key].url # entity_url_cache[key].url
                               /\ entity_url_cache'[key].expiry > entity_url_cache[key].expiry
                          /\ \A k \in DOMAIN entity_url_cache \ {key} :
                               entity_url_cache'[k] = entity_url_cache[k]
                     ELSE entity_url_cache' = entity_url_cache]_vars

\* an entry re-requested exactly at its expiry and replaced
C16_Witness ==
  /\ last.op = "upload"
  /\ last.lookup = "expired"
  /\ last.raised = NoError
  /\ last.calls[1].kind = "locate"
  /\ last.calls[1].location.issued = 55
  /\ entity_url_cache[last.entity].expiry = now + 55

\* ------------------------------------------------------------------ C17
\* C17: the name an upload_file call looks up and requests is its entity
\* name with every space and every hyphen turned into an underscore and
\* nothing else changed; sanitizing it again changes nothing; the path
\* segment of the location request and the key under which the answer is
\* cached are that same string; no cache key contains a space or a hyphen.
C17_SanitizedKey ==
  /\ [](last.op = "upload" =>
          /\ Len(last.entity) = Len(last.name)
          /\ \A i \in 1..Len(last.name) :
               last.entity[i] = IF last.name[i] \in {" ", "-"} THEN "_" ELSE last.name[i]
          /\ clean_name_for_s3(last.entity) = last.entity
          /\ \A i \in 1..Len(last.calls) :
               last.calls[i].kind = "locate" => last.calls[i].entity = last.entity)
  /\ [](\A k \in DOMAIN entity_url_cache : \A i \in 1..Len(k) : k[i] \notin {" ", "-"})
  /\ [][UploadStep =>
          /\ DOMAIN entity_url_cache' \subseteq DOMAIN entity_url_cache \cup {last'.entity}
          /\ (last'.calls # <<>> /\ last'.calls[1].kind = "locate"
                /\ ~last'.calls[1].conn /\ last'.calls[1].status = 200) =>
               /\ last'.calls[1].entity \in DOMAIN entity_url_cache'
               /\ entity_url_cache'[last'.calls[1].entity].url = last'.calls[1].location]_vars

\* a name with a hyphen was requested and cached under its sanitized form
C17_Witness ==
  /\ last.op = "upload"
  /\ last.name = <<"b", "-">>
  /\ last.calls # <<>>
  /\ last.calls[1].kind = "locate"
  /\ last.calls[1].entity = <<"b", "_">>
  /\ <<"b", "_">> \in DOMAIN entity_url_cache

\* ------------------------------------------------------------------ C18
\* C18: every storage transfer of an upload_file call uses a location that
\* was requested under the data_package_id the instance holds at that call.
C18_LocationOfCurrentSession ==
  last.op = "upload" =>
    \A i \in LastPosts : last.calls[i].location.dpid = data_package_id

\* ------------------------------------------------------------------ C19
\* the location request of an operation failed
LocateFailed(op) ==
  /\ op.calls # <<>>
  /\ op.calls[1].kind = "locate"
  /\ op.calls[1].conn \/ op.calls[1].status # 200

C19_Frame ==
  [][(UploadStep /\ LocateFailed(last')) =>
       /\ last'.raised # NoError
       /\ Len(last'.calls) = 1
       /\ entity_url_cache' = entity_url_cache
       /\ data_package_id' = data_package_id
       /\ pc' = pc]_vars

C19_CompleteAfterFailedLocate ==
  (ScopedExit /\ \E i \in Indices({"locate"}) : InScope(i) /\ ~calls[i].ok) =>
    \E j \in 1..Len(last.calls) : last.calls[j].kind = "complete"

\* C19: an upload_file call whose location request failed has raised, made
\* no other call, and left the cache, data_package_id and the scope as they
\* were; and the exit of a scope in which a location request failed has
\* issued the Complete call.
C19_FailedLocateLeavesSessionOpen ==
  C19_Frame /\ []C19_CompleteAfterFailedLocate

\* ------------------------------------------------------------------ C20
\* the operation made a storage transfer that was refused
PostFailed(op) ==
  \E i \in 1..Len(op.calls) : op.calls[i].kind = "post" /\ op.calls[i].status # 204

\* C20: an upload_file call whose transfer failed leaves data_package_id and
\* the scope as they were and the cache as its lookup left it (untouched on
\* a hit, the one fetched entry added or replaced otherwise), with the entry
\* of its entity present, holding the location it posted to and not expired;
\* and the next upload_file call for the same entity before the expiry, when
\* the last operation was such a failed call, makes no location request and
\* posts a readable file to that cached location.
C20_FailedTransferKeepsEntry ==
  /\ [][(UploadStep /\ PostFailed(last')) =>
          LET key == last'.entity
          IN /\ data_package_id' = data_package_id
             /\ pc' = pc
             /\ key \in DOMAIN entity_url_cache'
             /\ now' < entity_url_cache'[key].expiry
             /\ \A i \in 1..Len(last'.calls) :
                  last'.calls[i].kind = "post" =>
                    last'.calls[i].location = entity_url_cache'[key].url
             /\ last'.lookup = "hit" => entity_url_cache' = entity_url_cache
             /\ \A k \in DOMAIN entity_url_cache \ {key} :
                  k \in DOMAIN entity_url_cache' /\ entity_url_cache'[k] = entity_url_cache[k]]_vars
  /\ [][(UploadStep /\ last.op = "upload" /\ PostFailed(last)
           /\ last'.entity = last.entity
           /\ last.entity \in DOMAIN entity_url_cache
           /\ now < entity_url_cache[last.entity].expiry) =>
          /\ \A i \in 1..Len(last'.calls) : last'.calls[i].kind # "locate"
          /\ last'.ftype = "str" =>
               /\ Len(last'.calls) = 1
               /\ last'.calls[1].kind = "post"
               /\ last'.calls[1].location = entity_url_cache[last.entity].url]_vars

\* a refused transfer followed, 54 minutes later, by a transfer for the same
\* entity to the same cached location
C20_Witness ==
  /\ Len(calls) = 3
  /\ calls[1].kind = "locate" /\ calls[1].ok
  /\ calls[2].kind = "post" /\ ~calls[2].ok
  /\ calls[3].kind = "post" /\ calls[3].location = calls[2].location
  /\ last.op = "upload" /\ last.lookup = "hit"
  /\ now >= 54

\* ------------------------------------------------ the standalone script
\* the status a control-plane call of the script reported to __main__
Reported(c) == dis_api_call(c.resp).result.status_code

ScriptFiles == SubSeq(script.argv, 3, Len(script.argv))

BothReported200 ==
  /\ Len(script.calls) >= 2
  /\ Reported(script.calls[1]) = 200
  /\ Reported(script.calls[2]) = 200

\* ------------------------------------------------------------------ C12
\* C12: when the script has ended after Initialize and the location request
\* both reported 200, its calls after those two are one storage POST per file
\* argument, in command-line order, whatever the earlier files' outcomes,
\* followed by exactly one Complete call.
C12_EveryFileThenComplete ==
  (script.pc = "done" /\ BothReported200) =>
    /\ Len(script.calls) = 2 + Len(ScriptFiles) + 1
    /\ \A i \in 1..Len(ScriptFiles) :
         /\ script.calls[2 + i].kind = "post"
         /\ script.calls[2 + i].file = ScriptFiles[i]
    /\ script.calls[Len(script.calls)].kind = "complete"

\* ------------------------------------------------------------------ C13
\* C13: once Initialize has reported a status other than 200 the script has
\* ended with that single call; once Initialize reported 200 and the location
\* request did not, it has ended with those two calls (no storage POST, no
\* Complete); in both cases no exception was raised and the exit status is 0.
C13_FailedStepStops ==
  /\ (Len(script.calls) >= 1 /\ Reported(script.calls[1]) # 200) =>
       /\ Len(script.calls) = 1
       /\ script.pc = "done" /\ script.raised = "none" /\ script.exit = 0
  /\ (Len(script.calls) >= 2 /\ Reported(script.calls[1]) = 200
                             /\ Reported(script.calls[2]) # 200) =>
       /\ Len(script.calls) = 2
       /\ script.calls[2].kind = "locate"
       /\ script.pc = "done" /\ script.raised = "none" /\ script.exit = 0

\* Initialize answered 200, the location request 204: the script has ended
\* with status 0 and the session left uncompleted
C13_Witness ==
  /\ Len(script.calls) = 2
  /\ script.calls[1].resp.status = 200 /\ script.calls[1].resp.parsable
  /\ script.calls[2].resp.status = 204
  /\ script.pc = "done" /\ script.exit = 0

\* ------------------------------------------------------------------ C14
\* a step of the script that made a control-plane call
ScriptApiStep ==
  /\ Len(script'.calls) = Len(script.calls) + 1
  /\ script'.calls[Len(script'.calls)].kind \in ControlPlane

\* C14: every control-plane call of the script returned without raising,
\* with status_code 200 and the parsed body as `response` when the answer
\* was 200 with a JSON body, with the HTTP status alone when the answer had
\* another status, and with status_code 500 alone when the request raised
\* or the body could not be parsed; `response` is present exactly when
\* status_code is 200.
C14_NeverRaises ==
  [][ScriptApiStep =>
       LET resp == script'.calls[Len(script'.calls)].resp
           result == script'.result
       IN /\ script'.raised = "none"
          /\ (~resp.conn /\ resp.status = 200 /\ resp.parsable) =>
               result = [status_code |-> 200, response |-> resp.json]
          /\ (~resp.conn /\ resp.status # 200) => result = [status_code |-> resp.status]
          /\ (resp.conn \/ (resp.status = 200 /\ ~resp.parsable)) =>
               result = [status_code |-> 500]
          /\ ("response" \in DOMAIN result) <=> (result.status_code = 200)]_vars

\* a request that raised and a 200 answer with an unparsable body were both
\* reported as status_code 500, and the script went on to end with status 0
C14_Witness ==
  /\ script.pc = "done" /\ script.raised = "none" /\ script.exit = 0
  /\ script.result = [status_code |-> 500]
  /\ Len(script.calls) = 2
  /\ script.calls[1].resp.status = 200 /\ script.calls[1].resp.parsable
  /\ script.calls[2].resp.conn \/ (script.calls[2].resp.status = 200 /\ ~script.calls[2].resp.parsable)

\* ------------------------------------------------------------------ C15
\* C15: a run started with fewer than two arguments after the program name
\* has printed the usage line (and nothing else), has exited with status 1
\* and has made no network call.
C15_UsageAndExit1 ==
  (script.pc # "idle" /\ Len(script.argv) - 1 < 2) =>
    /\ script.pc = "done"
    /\ script.out = <<UsageLine(script.argv)>>
    /\ script.exit = 1
    /\ script.calls = <<>>

\* started with an entity name and no file
C15_Witness ==
  /\ Len(script.argv) = 2
  /\ script.argv[2] \in ScriptEntities
  /\ script.exit = 1
  /\ script.out # <<>>

====
